---- MODULE Spec2Model ----
(***************************************************************************)
(* Model of ubiquiti-video: the windowed retrieval loop getVideo           *)
(* (ubiquiti.ts) and the extract-audio worker pool (ubiquiti-video.ts).    *)
(* Instants are epoch milliseconds, as in a JavaScript Date.               *)
(***************************************************************************)
EXTENDS Integers, Sequences, FiniteSets, TLC

\* ------------------------------------------------------------------------
\* Bounds of the model
\* ------------------------------------------------------------------------
MaxRuns == 2          \* how many times the same fetch command is run
MaxCameras == 2       \* longest camera list passed to getVideo
MaxThreads == 3       \* largest --threads value
MaxPoolSeconds == 5   \* longest input of the pool model, in seconds
MaxPartitionSeconds == 126  \* longest input of the partition, in seconds
MaxRenderSteps == 30  \* largest export of the rendering check, in steps
MaxNameMinutes == 101  \* largest start minute of the name check

\* ------------------------------------------------------------------------
\* Units and program constants
\* ------------------------------------------------------------------------
MILLISECONDS_IN_SECOND == 1000
MILLISECONDS_IN_MINUTE == 60000

\* lines 343-344: 1000000
BytesPerMB == 1000000

\* the export sizes of the rendering check are multiples of this
RenderStep == BytesPerMB \div 10

StepMs == 500          \* granularity of the audio durations, in milliseconds

\* const maxMinuteDiff = { minutes: 60 }
maxMinuteDiff == 60

\* ------------------------------------------------------------------------
\* Inputs
\* ------------------------------------------------------------------------
AllCameras == <<"cam1", "cam2", "cam3">>

\* the camera lists passed to getVideo: up to MaxCameras distinct cameras
CameraLists == {SubSeq(AllCameras, 1, n) : n \in 0..MaxCameras}

StartChoices == {0}
MinuteChoices == {0, 2, 59, 60, 61, 120}
SecondChoices == {0, 30}

\* length of the requested range, in milliseconds
Durations ==
  {m * MILLISECONDS_IN_MINUTE + s * MILLISECONDS_IN_SECOND :
      m \in MinuteChoices, s \in SecondChoices}

\* size in bytes of the export the NVR returns for a window
ExportSizes == {0, 2500000}

\* wall-clock milliseconds between downloadStart and downloadEnd
ElapsedChoices == {0, 999, 1000, 2500, 3000}

\* ------------------------------------------------------------------------
\* date-fns helpers, as getVideo uses them
\* ------------------------------------------------------------------------
Trunc(num, den) == IF num >= 0 THEN num \div den ELSE -((-num) \div den)

isBefore(a, b) == a < b

differenceInMinutes(later, earlier) ==
  Trunc(later - earlier, MILLISECONDS_IN_MINUTE)

differenceInSeconds(later, earlier) ==
  Trunc(later - earlier, MILLISECONDS_IN_SECOND)

add(date, minutes) == date + minutes * MILLISECONDS_IN_MINUTE

\* format(date, 'yyyy-MM-dd hh:mm:ss aa'): the text names the calendar
\* second of the instant and drops the milliseconds
formatDate(date) == date \div MILLISECONDS_IN_SECOND

baseFilename(ws, we, camera) == <<formatDate(ws), formatDate(we), camera>>
mp4Filename(ws, we, camera) == <<baseFilename(ws, we, camera), "mp4">>
mkvFilename(ws, we, camera) == <<baseFilename(ws, we, camera), "mkv">>

\* ------------------------------------------------------------------------
\* File system: a function from the names of the existing files to
\* [size, whole]; whole says that the content is a complete artifact
\* ------------------------------------------------------------------------
existsSync(fs, name) == name \in DOMAIN fs

statSize(fs, name) == fs[name].size

writeFile(fs, name, sz, wh) ==
  [n \in DOMAIN fs \cup {name} |->
     IF n = name THEN [size |-> sz, whole |-> wh] ELSE fs[n]]

unlinkSync(fs, name) == [n \in DOMAIN fs \ {name} |-> fs[n]]

NoFiles == [n \in {} |-> [size |-> 0, whole |-> FALSE]]

NoTask == [camera |-> "", ws |-> 0, we |-> 0]

NoThroughput == [kind |-> "none", num |-> 0, den |-> 1]

NoString == [value |-> "none", unit |-> ""]

VARIABLES
  threads, chunkMs,           \* --threads, --chunk-duration (milliseconds)
  durationMs,                 \* duration of the input file (milliseconds)
  apc,                        \* position of the extract-audio handler
  jobs,                       \* the extraction jobs, in submission order
  jstate,                     \* state of each job
  queue, activeCount,         \* p-limit: waiting jobs, running count
  micro,                      \* the microtask queue, oldest first
  allState, allValues,        \* Promise.all: state and collected values
  allError,                   \* the job whose error rejected Promise.all
  result,                     \* what the handler logged
  started, finished           \* jobs in start order, in completion order

audioVars == <<threads, chunkMs, durationMs, apc, jobs, jstate, queue,
               activeCount, micro, allState, allValues, allError, result,
               started, finished>>

VARIABLES
  cameras, start, end, mp4,   \* arguments of getVideo
  exportSize,                 \* bytes the NVR exports for a window
  run,                        \* number of the current run of the command
  prevEnd,                    \* how the previous run ended ("none": no such run)
  pc,                         \* position of getVideo
  currentStart, currentEnd,   \* window cursor and window end
  camIdx,                     \* position of `for (const camera of cameras)`
  task,                       \* camera and window of the current task
  outputFiles,                \* the result list
  logins, cookies,            \* logins made so far, tokens in use
  throughput,                 \* mp4FileStats.size / diffInSeconds
  throughputString,           \* the rate as the completion line shows it
  files,                      \* the working directory
  filesAtStart,               \* the working directory when the run began
  log                         \* what the current run did, in order

args == <<cameras, start, end, mp4, exportSize>>

rate == <<throughput, throughputString>>

videoVars == <<args, run, prevEnd, pc,
               currentStart,
               currentEnd, camIdx, task, outputFiles, logins, cookies,
               rate, files, filesAtStart, log>>

VARIABLES
  inventory,                  \* the cameras getFullCameras returns, in order
  cameraName,                 \* --camera-name
  mpc,                        \* position of main
  filteredCameras,            \* the cameras the name matched
  mainError                   \* the error main rejected with

mainVars == <<inventory, cameraName, mpc, filteredCameras, mainError>>

vars == <<videoVars, audioVars, mainVars>>

Event(ev, t) ==
  [ev |-> ev, camera |-> t.camera, ws |-> t.ws, we |-> t.we]

taskMp4(t) == mp4Filename(t.ws, t.we, t.camera)
taskMkv(t) == mkvFilename(t.ws, t.we, t.camera)

\* the extract-audio command is not running
AudioIdle ==
  /\ threads = 1
  /\ chunkMs = 0
  /\ durationMs = 0
  /\ apc = "idle"
  /\ jobs = <<>>
  /\ jstate = <<>>
  /\ queue = <<>>
  /\ activeCount = 0
  /\ micro = <<>>
  /\ allState = "none"
  /\ allValues = <<>>
  /\ allError = 0
  /\ result = <<>>
  /\ started = <<>>
  /\ finished = <<>>

\* main of the name-matching fetch command is not running
MainIdle ==
  /\ inventory = <<>>
  /\ cameraName = <<>>
  /\ mpc = "idle"
  /\ filteredCameras = <<>>
  /\ mainError = "none"

\* ------------------------------------------------------------------------
\* Initial state: the command was started in an empty directory
\* ------------------------------------------------------------------------
InitVideo ==
  /\ cameras \in CameraLists
  /\ start \in StartChoices
  /\ \E d \in Durations : end = start + d
  /\ mp4 \in BOOLEAN
  /\ exportSize \in ExportSizes
  /\ run = 1
  /\ prevEnd = "none"
  /\ pc = "while"
  /\ currentStart = start
  /\ currentEnd = start
  /\ camIdx = 1
  /\ task = NoTask
  /\ outputFiles = <<>>
  /\ logins = 0
  /\ cookies = 0
  /\ throughput = NoThroughput
  /\ throughputString = NoString
  /\ files = NoFiles
  /\ filesAtStart = NoFiles
  /\ log = <<>>
  /\ AudioIdle
  /\ MainIdle

\* ------------------------------------------------------------------------
\* Pure parts of the loop body
\* ------------------------------------------------------------------------

\* the window end without the test of line 296
windowEndUnclamped(cur, rangeEnd) == add(cur, maxMinuteDiff)

\* lines 293-300: the end of the window that starts at cur
windowEnd(cur, rangeEnd) ==
  IF differenceInMinutes(rangeEnd, cur) > maxMinuteDiff
  THEN add(cur, maxMinuteDiff)
  ELSE rangeEnd

\* line 316: the cursor after one camera's task was set up
advance(cur) == add(cur, maxMinuteDiff)

\* the guard without its size test: any existing file is replaced
guardDecisionNoSizeTest(fs, name) ==
  IF existsSync(fs, name) THEN "ProceedAfterDeletingStale" ELSE "Proceed"

\* lines 318-327: what the loop does about an existing raw file
guardDecision(fs, name) ==
  IF existsSync(fs, name)
  THEN IF statSize(fs, name) = 0
       THEN "ProceedAfterDeletingStale"
       ELSE "Block"
  ELSE "Proceed"

\* line 339: mp4FileStats.size / diffInSeconds, an IEEE-754 division
throughputOf(size, diffInSeconds) ==
  IF diffInSeconds = 0
  THEN IF size = 0
       THEN [kind |-> "NaN", num |-> 0, den |-> 0]
       ELSE [kind |-> "Infinity", num |-> size, den |-> 0]
  ELSE [kind |-> "finite", num |-> size, den |-> diffInSeconds]

\* the ternary of line 368 with its branches swapped
finalFilenameSwapped(t, keepMp4) ==
  IF keepMp4 THEN taskMkv(t) ELSE taskMp4(t)

\* Math.round of the rational num / den (den > 0): floor(x + 1/2)
MathRound(num, den) == (2 * num + den) \div (2 * den)

\* the rendering with >= where line 343 has >
renderThroughputInclusive(t) ==
  IF t.kind = "NaN" THEN [value |-> "NaN", unit |-> "B"]
  ELSE IF t.kind = "Infinity" THEN [value |-> "Infinity", unit |-> "MB"]
  ELSE IF t.num >= BytesPerMB * t.den
       THEN [value |-> MathRound(t.num, t.den * BytesPerMB), unit |-> "MB"]
       ELSE [value |-> MathRound(t.num, t.den), unit |-> "B"]

\* lines 341-347: throughputString; NaN > 1000000 is false, Infinity is
\* above it and Math.round keeps both
renderThroughput(t) ==
  IF t.kind = "NaN" THEN [value |-> "NaN", unit |-> "B"]
  ELSE IF t.kind = "Infinity" THEN [value |-> "Infinity", unit |-> "MB"]
  ELSE IF t.num > BytesPerMB * t.den
       THEN [value |-> MathRound(t.num, t.den * BytesPerMB), unit |-> "MB"]
       ELSE [value |-> MathRound(t.num, t.den), unit |-> "B"]

\* line 368: the name a DownloadResult carries
finalFilename(t, keepMp4) == IF keepMp4 THEN taskMp4(t) ELSE taskMkv(t)

\* lines 363-370
resultEntry(t, keepMp4) ==
  [camera |-> t.camera, start |-> start, end |-> end,
   filename |-> finalFilename(t, keepMp4)]

\* ------------------------------------------------------------------------
\* getVideo, one action per stretch of code between two awaits
\* ------------------------------------------------------------------------

\* line 292, loop test true; lines 293-300
WhileEnter ==
  /\ pc = "while"
  /\ isBefore(currentStart, end)
  /\ currentEnd' = windowEnd(currentStart, end)
  /\ camIdx' = 1
  /\ pc' = "for"
  /\ UNCHANGED <<audioVars, mainVars>>
  /\ UNCHANGED <<args, run, prevEnd, currentStart,
                 task, outputFiles, logins, cookies, rate, files,
                 filesAtStart, log>>

\* line 292, loop test false; line 374
WhileExit ==
  /\ pc = "while"
  /\ ~isBefore(currentStart, end)
  /\ pc' = "done"
  /\ UNCHANGED <<audioVars, mainVars>>
  /\ UNCHANGED <<args, run, prevEnd, currentStart,
                 currentEnd, camIdx, task, outputFiles, logins, cookies,
                 rate, files, filesAtStart, log>>

\* line 302, no camera left: back to the loop test
ForExit ==
  /\ pc = "for"
  /\ camIdx > Len(cameras)
  /\ pc' = "while"
  /\ UNCHANGED <<audioVars, mainVars>>
  /\ UNCHANGED <<args, run, prevEnd, currentStart,
                 currentEnd, camIdx, task, outputFiles, logins, cookies,
                 rate, files, filesAtStart, log>>

\* the loop body with a Block decision thrown as an error
ForBodyBlockThrows ==
  /\ pc = "for"
  /\ camIdx <= Len(cameras)
  /\ LET t == [camera |-> cameras[camIdx], ws |-> currentStart,
               we |-> currentEnd]
         d == guardDecision(files, taskMp4(t))
     IN /\ task' = t
        /\ currentStart' = advance(currentStart)
        /\ throughput' = NoThroughput
        /\ throughputString' = NoString
        /\ IF d = "Block"
           THEN /\ camIdx' = camIdx
                /\ pc' = "failed"
                /\ files' = files
                /\ log' = log \o <<Event("plan", t), Event("skip", t)>>
           ELSE /\ camIdx' = camIdx
                /\ pc' = "getCookies"
                /\ IF d = "ProceedAfterDeletingStale"
                   THEN /\ files' = unlinkSync(files, taskMp4(t))
                        /\ log' = log \o <<Event("plan", t),
                                           Event("unlinkStale", t)>>
                   ELSE /\ files' = files
                        /\ log' = log \o <<Event("plan", t)>>
  /\ UNCHANGED <<audioVars, mainVars>>
  /\ UNCHANGED <<args, run, prevEnd, currentEnd,
                 outputFiles, logins, cookies, filesAtStart>>

\* lines 302-332: the task of the next camera up to `await getCookies()`
ForBody ==
  /\ pc = "for"
  /\ camIdx <= Len(cameras)
  /\ LET t == [camera |-> cameras[camIdx], ws |-> currentStart,
               we |-> currentEnd]
         d == guardDecision(files, taskMp4(t))
     IN /\ task' = t
        /\ currentStart' = advance(currentStart)
        /\ throughput' = NoThroughput
        /\ throughputString' = NoString
        /\ IF d = "Block"
           THEN /\ camIdx' = camIdx + 1
                /\ pc' = "for"
                /\ files' = files
                /\ log' = log \o <<Event("plan", t), Event("skip", t)>>
           ELSE /\ camIdx' = camIdx
                /\ pc' = "getCookies"
                /\ IF d = "ProceedAfterDeletingStale"
                   THEN /\ files' = unlinkSync(files, taskMp4(t))
                        /\ log' = log \o <<Event("plan", t),
                                           Event("unlinkStale", t)>>
                   ELSE /\ files' = files
                        /\ log' = log \o <<Event("plan", t)>>
  /\ UNCHANGED <<audioVars, mainVars>>
  /\ UNCHANGED <<args, run, prevEnd, currentEnd,
                 outputFiles, logins, cookies, filesAtStart>>

\* the loop logs in once and sends the tokens it has with every later GET
GetCookiesOkReusesTokens ==
  /\ pc = "getCookies"
  /\ IF cookies = 0
     THEN /\ logins' = logins + 1
          /\ cookies' = logins + 1
          /\ log' = log \o <<Event("login", task), Event("get", task)>>
     ELSE /\ logins' = logins
          /\ cookies' = cookies
          /\ log' = log \o <<Event("get", task)>>
  /\ files' = writeFile(files, taskMp4(task), 0, FALSE)
  /\ pc' = "axiosGet"
  /\ UNCHANGED <<audioVars, mainVars>>
  /\ UNCHANGED <<args, run, prevEnd, currentStart,
                 currentEnd, camIdx, task, outputFiles, rate,
                 filesAtStart>>

\* lines 229-240 resolved; lines 334, 159-182: the write stream is created
\* and the GET is sent with the cookies of this login
GetCookiesOk ==
  /\ pc = "getCookies"
  /\ logins' = logins + 1
  /\ cookies' = logins + 1
  /\ files' = writeFile(files, taskMp4(task), 0, FALSE)
  /\ log' = log \o <<Event("login", task), Event("get", task)>>
  /\ pc' = "axiosGet"
  /\ UNCHANGED <<audioVars, mainVars>>
  /\ UNCHANGED <<args, run, prevEnd, currentStart,
                 currentEnd, camIdx, task, outputFiles, rate,
                 filesAtStart>>

\* the loop catches a failed login and goes on to the next camera
GetCookiesFailSkipsTask ==
  /\ pc = "getCookies"
  /\ camIdx' = camIdx + 1
  /\ pc' = "for"
  /\ log' = Append(log, Event("loginError", task))
  /\ UNCHANGED <<audioVars, mainVars>>
  /\ UNCHANGED <<args, run, prevEnd, currentStart,
                 currentEnd, task, outputFiles, logins, cookies,
                 rate, files, filesAtStart>>

\* lines 118, 233: the login request failed; getVideo rejects
GetCookiesFail ==
  /\ pc = "getCookies"
  /\ pc' = "failed"
  /\ log' = Append(log, Event("loginError", task))
  /\ UNCHANGED <<audioVars, mainVars>>
  /\ UNCHANGED <<args, run, prevEnd, currentStart,
                 currentEnd, camIdx, task, outputFiles, logins, cookies,
                 rate, files, filesAtStart>>

\* the download promise resolves when the response arrives, before the
\* body is written, and the loop goes on to the next camera
AxiosGetOkResolvesEarly ==
  /\ pc = "axiosGet"
  /\ camIdx' = camIdx + 1
  /\ pc' = "for"
  /\ UNCHANGED <<audioVars, mainVars>>
  /\ UNCHANGED <<args, run, prevEnd, currentStart,
                 currentEnd, task, outputFiles, logins, cookies,
                 rate, files, filesAtStart, log>>

\* lines 169-194: the response arrived and is piped into the writer
AxiosGetOk ==
  /\ pc = "axiosGet"
  /\ pc' = "stream"
  /\ UNCHANGED <<audioVars, mainVars>>
  /\ UNCHANGED <<args, run, prevEnd, currentStart,
                 currentEnd, camIdx, task, outputFiles, logins, cookies,
                 rate, files, filesAtStart, log>>

\* line 169: network error or error status; getVideo rejects
AxiosGetFail ==
  /\ pc = "axiosGet"
  /\ pc' = "failed"
  /\ log' = Append(log, Event("getError", task))
  /\ UNCHANGED <<audioVars, mainVars>>
  /\ UNCHANGED <<args, run, prevEnd, currentStart,
                 currentEnd, camIdx, task, outputFiles, logins, cookies,
                 rate, files, filesAtStart>>

\* line 184: a first part of the body reached the file
StreamData ==
  /\ pc = "stream"
  /\ statSize(files, taskMp4(task)) = 0
  /\ exportSize > 1
  /\ files' = writeFile(files, taskMp4(task), exportSize \div 2, FALSE)
  /\ UNCHANGED <<audioVars, mainVars>>
  /\ UNCHANGED <<args, run, prevEnd, pc, currentStart,
                 currentEnd, camIdx, task, outputFiles, logins, cookies,
                 rate, filesAtStart, log>>

\* lines 203-210: the writer or the response stream failed
StreamError ==
  /\ pc = "stream"
  /\ pc' = "failed"
  /\ log' = Append(log, Event("streamError", task))
  /\ UNCHANGED <<audioVars, mainVars>>
  /\ UNCHANGED <<args, run, prevEnd, currentStart,
                 currentEnd, camIdx, task, outputFiles, logins, cookies,
                 rate, files, filesAtStart>>

\* lines 197-202 and 336-370: the writer finished; throughput; then either
\* the result is pushed (mp4) or the conversion is started (line 359)
WriterFinish ==
  /\ pc = "stream"
  /\ \E elapsed \in ElapsedChoices :
       throughput' = throughputOf(exportSize, differenceInSeconds(elapsed, 0))
  /\ throughputString' = renderThroughput(throughput')
  /\ files' = writeFile(files, taskMp4(task), exportSize, TRUE)
  /\ IF mp4
     THEN /\ outputFiles' = Append(outputFiles, resultEntry(task, mp4))
          /\ log' = log \o <<Event("finish", task), Event("push", task)>>
          /\ camIdx' = camIdx + 1
          /\ pc' = "for"
     ELSE /\ outputFiles' = outputFiles
          /\ log' = log \o <<Event("finish", task), Event("convert", task)>>
          /\ camIdx' = camIdx
          /\ pc' = "convert"
  /\ UNCHANGED <<audioVars, mainVars>>
  /\ UNCHANGED <<args, run, prevEnd, currentStart,
                 currentEnd, task, logins, cookies, filesAtStart>>

\* lines 253-261: ffmpeg opened the output and wrote part of it
ConvertProgress ==
  /\ pc = "convert"
  /\ files' = writeFile(files, taskMkv(task), exportSize \div 2, FALSE)
  /\ pc' = "converting"
  /\ UNCHANGED <<audioVars, mainVars>>
  /\ UNCHANGED <<args, run, prevEnd, currentStart,
                 currentEnd, camIdx, task, outputFiles, logins, cookies,
                 rate, filesAtStart, log>>

\* lines 262-265 and 360-370: ffmpeg ended; raw file removed; result pushed
ConvertEnd ==
  /\ pc = "converting"
  /\ files' = unlinkSync(writeFile(files, taskMkv(task), exportSize, TRUE),
                         taskMp4(task))
  /\ outputFiles' = Append(outputFiles, resultEntry(task, mp4))
  /\ log' = log \o <<Event("converted", task), Event("unlinkRaw", task),
                     Event("push", task)>>
  /\ camIdx' = camIdx + 1
  /\ pc' = "for"
  /\ UNCHANGED <<audioVars, mainVars>>
  /\ UNCHANGED <<args, run, prevEnd, currentStart,
                 currentEnd, task, logins, cookies, rate,
                 filesAtStart>>

\* a failed conversion that still removes its input, as a `finally` would
ConvertErrorRemovesRaw ==
  /\ pc \in {"convert", "converting"}
  /\ pc' = "failed"
  /\ files' = unlinkSync(files, taskMp4(task))
  /\ log' = log \o <<Event("convertError", task)>>
  /\ UNCHANGED <<audioVars, mainVars>>
  /\ UNCHANGED <<args, run, prevEnd,
                 currentStart, currentEnd, camIdx, task, outputFiles, logins,
                 cookies, rate, filesAtStart>>

\* lines 266-269: ffmpeg failed; convertToMkv rejects and getVideo with it
ConvertError ==
  /\ pc \in {"convert", "converting"}
  /\ pc' = "failed"
  /\ log' = log \o <<Event("convertError", task)>>
  /\ UNCHANGED <<audioVars, mainVars>>
  /\ UNCHANGED <<args, run, prevEnd, currentStart,
                 currentEnd, camIdx, task, outputFiles, logins, cookies,
                 rate, files, filesAtStart>>

\* the process is interrupted while it waits on the network or on ffmpeg
Kill ==
  /\ pc \in {"getCookies", "axiosGet", "stream", "convert", "converting"}
  /\ pc' = "killed"
  /\ UNCHANGED <<audioVars, mainVars>>
  /\ UNCHANGED <<args, run, prevEnd, currentStart,
                 currentEnd, camIdx, task, outputFiles, logins, cookies,
                 rate, files, filesAtStart, log>>

\* the same command is run again in the same directory (lines 284-286)
Rerun ==
  /\ pc \in {"done", "failed", "killed"}
  /\ run < MaxRuns
  /\ run' = run + 1
  /\ prevEnd' = pc
  /\ pc' = "while"
  /\ currentStart' = start
  /\ currentEnd' = start
  /\ camIdx' = 1
  /\ task' = NoTask
  /\ outputFiles' = <<>>
  /\ logins' = 0
  /\ cookies' = 0
  /\ throughput' = NoThroughput
  /\ throughputString' = NoString
  /\ filesAtStart' = files
  /\ log' = <<>>
  /\ UNCHANGED <<args, files, audioVars, mainVars>>

NextVideo ==
  \/ WhileEnter \/ WhileExit \/ ForExit \/ ForBody
  \/ GetCookiesOk \/ GetCookiesFail \/ AxiosGetOk \/ AxiosGetFail
  \/ StreamData \/ StreamError \/ WriterFinish
  \/ ConvertProgress \/ ConvertEnd \/ ConvertError
  \/ Kill \/ Rerun

SpecVideo == InitVideo /\ [][NextVideo]_vars

\* getVideo when every step that can be taken is taken in the end: the
\* event loop runs what is ready, and every login, download and conversion
\* ends, one way or another
SpecVideoFair == InitVideo /\ [][NextVideo]_vars /\ WF_vars(NextVideo)

\* ========================================================================
\* extract-audio: chunk partition and the p-limit worker pool
\* ========================================================================

\* the video pipeline is not running
VideoIdle ==
  /\ cameras = <<>>
  /\ start = 0
  /\ end = 0
  /\ mp4 = FALSE
  /\ exportSize = 0
  /\ run = 1
  /\ prevEnd = "none"
  /\ pc = "idle"
  /\ currentStart = 0
  /\ currentEnd = 0
  /\ camIdx = 1
  /\ task = NoTask
  /\ outputFiles = <<>>
  /\ logins = 0
  /\ cookies = 0
  /\ throughput = NoThroughput
  /\ throughputString = NoString
  /\ files = NoFiles
  /\ filesAtStart = NoFiles
  /\ log = <<>>

\* --threads values; pLimit accepts the integers from 1 up
ThreadChoices == 0..MaxThreads

\* durations of the probed file and of a chunk in the pool model
PoolDurations == {k * StepMs : k \in 0..(2 * MaxPoolSeconds)}
PoolChunks == {MILLISECONDS_IN_SECOND, 3 * StepMs}

\* the loop test written with <= instead of <
loopValuesInclusive(duration, chunk) ==
  {loop \in 0..(duration \div MILLISECONDS_IN_SECOND + 1) :
     loop * MILLISECONDS_IN_SECOND <= duration - chunk}

\* line 243: the values of `loop` that pass the test loop < numberOfChunks,
\* with numberOfChunks = durationInSeconds - chunkDuration (line 239); the
\* test is monotone, so they are the values the loop runs through
loopValues(duration, chunk) ==
  {loop \in 0..(duration \div MILLISECONDS_IN_SECOND + 1) :
     loop * MILLISECONDS_IN_SECOND < duration - chunk}

\* lines 242-249: one job extractAudio(inputFile, loop, chunkDuration) per
\* value of loop, in increasing order
partition(duration, chunk) ==
  [i \in 1..Cardinality(loopValues(duration, chunk)) |->
     [offset |-> i - 1, duration |-> chunk]]

DigitChars == <<"0", "1", "2", "3", "4", "5", "6", "7", "8", "9">>

\* String(n) for an integer n >= 0: its decimal digits
RECURSIVE decimal(_)
decimal(n) ==
  IF n < 10
  THEN <<DigitChars[n + 1]>>
  ELSE Append(decimal(n \div 10), DigitChars[(n % 10) + 1])

\* a padding that also cuts the string down to its last `len` characters
padStartKeepsLast(str, len, fill) ==
  IF Len(str) >= len
  THEN SubSeq(str, Len(str) - len + 1, Len(str))
  ELSE [i \in 1..(len - Len(str)) |-> fill] \o str

\* String.prototype.padStart with a one-character fill: a string of `len`
\* characters or more is returned as it is
padStart(str, len, fill) ==
  IF Len(str) >= len
  THEN str
  ELSE [i \in 1..(len - Len(str)) |-> fill] \o str

\* lines 283-289: the part of `${inputFile}-audio-${MM}m-${SS}s.wav` that
\* depends on the job, as a sequence of characters
outputFile(startTime) ==
  LET startMinute == startTime \div 60
      startSecond == startTime % 60
  IN padStart(decimal(startMinute), 2, "0") \o <<"m", "-">>
       \o padStart(decimal(startSecond), 2, "0") \o <<"s">>

\* p-limit run(): activeCount++, then the job function is called
activeAfterRun(n) == n + 1

\* p-limit: a waiting job may be started
mayStart(active, concurrency, waiting) ==
  active < concurrency /\ waiting # <<>>

\* results collected in the order the jobs complete
storeValueOnArrival(values, i, v) ==
  LET free == {k \in DOMAIN values : values[k] = <<>>}
      first == CHOOSE k \in free : \A m \in free : k <= m
  IN [values EXCEPT ![first] = v]

\* Promise.all stores the value of its i-th promise at index i
storeValue(values, i, v) == [values EXCEPT ![i] = v]

NoValue == <<>>

checkTask == [k |-> "check", job |-> 0, ok |-> TRUE]
nextTask == [k |-> "next", job |-> 0, ok |-> TRUE]
resumeTask == [k |-> "resume", job |-> 0, ok |-> TRUE]
settleTask(j, ok) == [k |-> "settle", job |-> j, ok |-> ok]

\* line 236, pLimit(args.threads) accepted the concurrency; line 238 awaits
PLimitOk ==
  /\ apc = "start"
  /\ threads >= 1
  /\ apc' = "probe"
  /\ UNCHANGED <<threads, chunkMs, durationMs, jobs, jstate, queue,
                 activeCount, micro, allState, allValues, allError, result,
                 started, finished>>
  /\ UNCHANGED <<videoVars, mainVars>>

\* line 236, pLimit throws a TypeError: the handler rejects
PLimitThrows ==
  /\ apc = "start"
  /\ threads < 1
  /\ apc' = "rejected"
  /\ UNCHANGED <<threads, chunkMs, durationMs, jobs, jstate, queue,
                 activeCount, micro, allState, allValues, allError, result,
                 started, finished>>
  /\ UNCHANGED <<videoVars, mainVars>>

\* lines 258-276 rejected (probe error or no duration): the handler rejects
ProbeFail ==
  /\ apc = "probe"
  /\ apc' = "rejected"
  /\ UNCHANGED <<threads, chunkMs, durationMs, jobs, jstate, queue,
                 activeCount, micro, allState, allValues, allError, result,
                 started, finished>>
  /\ UNCHANGED <<videoVars, mainVars>>

\* the jobs called directly instead of through limit(): all start at once
ProbeOkWithoutLimit ==
  /\ apc = "probe"
  /\ LET js == partition(durationMs, chunkMs)
         n == Len(js)
     IN /\ jobs' = js
        /\ jstate' = [i \in 1..n |-> "running"]
        /\ started' = [i \in 1..n |-> i]
        /\ activeCount' = n
        /\ queue' = <<>>
        /\ allValues' = [i \in 1..n |-> <<>>]
        /\ allState' = IF n = 0 THEN "fulfilled" ELSE "pending"
        /\ micro' = IF n = 0 THEN <<resumeTask>> ELSE <<>>
  /\ apc' = "collect"
  /\ UNCHANGED <<threads, chunkMs, durationMs, allError, result, finished>>
  /\ UNCHANGED <<videoVars, mainVars>>

\* lines 238-250: the duration arrived; every job is handed to limit(),
\* which queues it and defers its start check; then Promise.all is awaited
ProbeOk ==
  /\ apc = "probe"
  /\ LET js == partition(durationMs, chunkMs)
         n == Len(js)
     IN /\ jobs' = js
        /\ jstate' = [i \in 1..n |-> "queued"]
        /\ queue' = [i \in 1..n |-> i]
        /\ allValues' = [i \in 1..n |-> NoValue]
        /\ allState' = IF n = 0 THEN "fulfilled" ELSE "pending"
        /\ micro' = [i \in 1..n |-> checkTask]
                      \o (IF n = 0 THEN <<resumeTask>> ELSE <<>>)
  /\ apc' = "collect"
  /\ UNCHANGED <<threads, chunkMs, durationMs, activeCount, allError,
                 result, started, finished>>
  /\ UNCHANGED <<videoVars, mainVars>>

\* p-limit enqueue(): after `await Promise.resolve()`, start the oldest
\* waiting job if fewer than `concurrency` are active
MicroCheck ==
  /\ micro # <<>>
  /\ Head(micro).k = "check"
  /\ IF mayStart(activeCount, threads, queue)
     THEN /\ activeCount' = activeAfterRun(activeCount)
          /\ jstate' = [jstate EXCEPT ![Head(queue)] = "running"]
          /\ started' = Append(started, Head(queue))
          /\ queue' = Tail(queue)
     ELSE UNCHANGED <<activeCount, jstate, started, queue>>
  /\ micro' = Tail(micro)
  /\ UNCHANGED <<threads, chunkMs, durationMs, apc, jobs, allState,
                 allValues, allError, result, finished>>
  /\ UNCHANGED <<videoVars, mainVars>>

\* next() with a stack in place of the queue: the newest waiting job runs
MicroNextTakesNewest ==
  /\ micro # <<>>
  /\ Head(micro).k = "next"
  /\ IF queue # <<>>
     THEN /\ activeCount' = activeAfterRun(activeCount - 1)
          /\ jstate' = [jstate EXCEPT ![queue[Len(queue)]] = "running"]
          /\ started' = Append(started, queue[Len(queue)])
          /\ queue' = SubSeq(queue, 1, Len(queue) - 1)
     ELSE /\ activeCount' = activeCount - 1
          /\ UNCHANGED <<jstate, started, queue>>
  /\ micro' = Tail(micro)
  /\ UNCHANGED <<threads, chunkMs, durationMs, apc, jobs, allState,
                 allValues, allError, result, finished>>
  /\ UNCHANGED <<videoVars, mainVars>>

\* p-limit next(), run after a job settled: activeCount--, then the oldest
\* waiting job is started
MicroNext ==
  /\ micro # <<>>
  /\ Head(micro).k = "next"
  /\ IF queue # <<>>
     THEN /\ activeCount' = activeAfterRun(activeCount - 1)
          /\ jstate' = [jstate EXCEPT ![Head(queue)] = "running"]
          /\ started' = Append(started, Head(queue))
          /\ queue' = Tail(queue)
     ELSE /\ activeCount' = activeCount - 1
          /\ UNCHANGED <<jstate, started, queue>>
  /\ micro' = Tail(micro)
  /\ UNCHANGED <<threads, chunkMs, durationMs, apc, jobs, allState,
                 allValues, allError, result, finished>>
  /\ UNCHANGED <<videoVars, mainVars>>

\* line 250, Promise.all's reaction to one settled promise
MicroSettle ==
  /\ micro # <<>>
  /\ Head(micro).k = "settle"
  /\ LET j == Head(micro).job
         vals == storeValue(allValues, j, outputFile(jobs[j].offset))
     IN IF Head(micro).ok
        THEN /\ allValues' = vals
             /\ allError' = allError
             /\ IF allState = "pending"
                   /\ \A i \in DOMAIN vals : vals[i] # NoValue
                THEN /\ allState' = "fulfilled"
                     /\ micro' = Append(Tail(micro), resumeTask)
                ELSE /\ allState' = allState
                     /\ micro' = Tail(micro)
        ELSE /\ allValues' = allValues
             /\ IF allState = "pending"
                THEN /\ allState' = "rejected"
                     /\ allError' = j
                     /\ micro' = Append(Tail(micro), resumeTask)
                ELSE /\ allState' = allState
                     /\ allError' = allError
                     /\ micro' = Tail(micro)
  /\ UNCHANGED <<threads, chunkMs, durationMs, apc, jobs, jstate, queue,
                 activeCount, result, started, finished>>
  /\ UNCHANGED <<videoVars, mainVars>>

\* the handler logs the collected values whatever Promise.all settled to
MicroResumeIgnoresError ==
  /\ micro # <<>>
  /\ Head(micro).k = "resume"
  /\ result' = allValues
  /\ apc' = "done"
  /\ micro' = Tail(micro)
  /\ UNCHANGED <<threads, chunkMs, durationMs, jobs, jstate, queue,
                 activeCount, allState, allValues, allError, started,
                 finished>>
  /\ UNCHANGED <<videoVars, mainVars>>

\* lines 250-254: the handler resumes after `await Promise.all(promises)`
MicroResume ==
  /\ micro # <<>>
  /\ Head(micro).k = "resume"
  /\ IF allState = "fulfilled"
     THEN /\ result' = allValues
          /\ apc' = "done"
     ELSE /\ result' = <<"error", allError>>
          /\ apc' = "caught"
  /\ micro' = Tail(micro)
  /\ UNCHANGED <<threads, chunkMs, durationMs, jobs, jstate, queue,
                 activeCount, allState, allValues, allError, started,
                 finished>>
  /\ UNCHANGED <<videoVars, mainVars>>

\* lines 297-300: ffmpeg ended the segment of job j
JobEnd(j) ==
  /\ micro = <<>>
  /\ jstate[j] = "running"
  /\ jstate' = [jstate EXCEPT ![j] = "fulfilled"]
  /\ finished' = Append(finished, j)
  /\ micro' = <<nextTask, settleTask(j, TRUE)>>
  /\ UNCHANGED <<threads, chunkMs, durationMs, apc, jobs, queue,
                 activeCount, allState, allValues, allError, result,
                 started>>
  /\ UNCHANGED <<videoVars, mainVars>>

\* lines 301-304: ffmpeg failed on the segment of job j
JobError(j) ==
  /\ micro = <<>>
  /\ jstate[j] = "running"
  /\ jstate' = [jstate EXCEPT ![j] = "rejected"]
  /\ finished' = Append(finished, j)
  /\ micro' = <<nextTask, settleTask(j, FALSE)>>
  /\ UNCHANGED <<threads, chunkMs, durationMs, apc, jobs, queue,
                 activeCount, allState, allValues, allError, result,
                 started>>
  /\ UNCHANGED <<videoVars, mainVars>>

AudioFresh ==
  /\ jobs = <<>>
  /\ jstate = <<>>
  /\ queue = <<>>
  /\ activeCount = 0
  /\ micro = <<>>
  /\ allState = "none"
  /\ allValues = <<>>
  /\ allError = 0
  /\ result = <<>>
  /\ started = <<>>
  /\ finished = <<>>

InitAudio ==
  /\ VideoIdle
  /\ threads \in ThreadChoices
  /\ chunkMs \in PoolChunks
  /\ durationMs \in PoolDurations
  /\ apc = "start"
  /\ AudioFresh
  /\ MainIdle

NextAudio ==
  \/ PLimitOk \/ PLimitThrows \/ ProbeOk \/ ProbeFail
  \/ MicroCheck \/ MicroNext \/ MicroSettle \/ MicroResume
  \/ \E j \in DOMAIN jstate : JobEnd(j)
  \/ \E j \in DOMAIN jstate : JobError(j)

SpecAudio == InitAudio /\ [][NextAudio]_vars

\* lines 234-255: how the async handler ended.  Its promise rejects when
\* pLimit throws or the probe fails (lines 236-239, outside the try); after
\* the try and after the catch of lines 252-254 it returns normally
handlerOutcome ==
  CASE apc = "rejected" -> "failed"
    [] apc \in {"done", "caught"} -> "completed"
    [] OTHER -> "running"

\* ------------------------------------------------------------------------
\* The partition alone, on durations as long as the documented example
\* ------------------------------------------------------------------------
PartitionDurations == {k * StepMs : k \in 0..(2 * MaxPartitionSeconds)}
PartitionChunks == {StepMs * k : k \in {1, 2, 3, 20}}

InitPartition ==
  /\ VideoIdle
  /\ threads = 1
  /\ chunkMs \in PartitionChunks
  /\ durationMs \in PartitionDurations
  /\ apc = "probe"
  /\ AudioFresh
  /\ MainIdle

\* lines 239-249 without the pool: the jobs the loop creates
Partition ==
  /\ apc = "probe"
  /\ jobs' = partition(durationMs, chunkMs)
  /\ apc' = "partitioned"
  /\ UNCHANGED <<threads, chunkMs, durationMs, jstate, queue, activeCount,
                 micro, allState, allValues, allError, result, started,
                 finished>>
  /\ UNCHANGED <<videoVars, mainVars>>

NextPartition == Partition

SpecPartition == InitPartition /\ [][NextPartition]_vars

\* ------------------------------------------------------------------------
\* The output names alone: two jobs of one run, at start offsets up to 100
\* minutes and more
\* ------------------------------------------------------------------------
NameMinutes == {0, 1, 9, 10, 99, 100, MaxNameMinutes}
NameSeconds == {0, 1, 9, 10, 59}
NameOffsets == {60 * m + sec : m \in NameMinutes, sec \in NameSeconds}

InitNames ==
  /\ VideoIdle
  /\ MainIdle
  /\ threads = 2
  /\ chunkMs = MILLISECONDS_IN_SECOND
  /\ durationMs = (60 * MaxNameMinutes + 61) * MILLISECONDS_IN_SECOND
  /\ apc = "name"
  /\ \E a, b \in NameOffsets :
       /\ a < b
       /\ jobs = <<[offset |-> a, duration |-> chunkMs],
                   [offset |-> b, duration |-> chunkMs]>>
  /\ jstate = <<"running", "running">>
  /\ queue = <<>>
  /\ activeCount = 2
  /\ micro = <<>>
  /\ allState = "pending"
  /\ allValues = <<NoValue, NoValue>>
  /\ allError = 0
  /\ result = <<>>
  /\ started = <<1, 2>>
  /\ finished = <<>>

\* lines 283-289 for both jobs: the files they write
Names ==
  /\ apc = "name"
  /\ allValues' = [i \in DOMAIN jobs |-> outputFile(jobs[i].offset)]
  /\ apc' = "named"
  /\ UNCHANGED <<threads, chunkMs, durationMs, jobs, jstate, queue,
                 activeCount, micro, allState, allError, result, started,
                 finished>>
  /\ UNCHANGED <<videoVars, mainVars>>

NextNames == Names

SpecNames == InitNames /\ [][NextNames]_vars

\* ------------------------------------------------------------------------
\* The completion line alone: one download of a two-minute range is in
\* flight and the export has one of many sizes
\* ------------------------------------------------------------------------
RenderSizes == {k * RenderStep : k \in 0..MaxRenderSteps}

RenderTask ==
  [camera |-> AllCameras[1], ws |-> 0, we |-> 2 * MILLISECONDS_IN_MINUTE]

InitRender ==
  /\ cameras = <<AllCameras[1]>>
  /\ start = RenderTask.ws
  /\ end = RenderTask.we
  /\ mp4 \in BOOLEAN
  /\ exportSize \in RenderSizes
  /\ run = 1
  /\ prevEnd = "none"
  /\ pc = "stream"
  /\ currentStart = advance(start)
  /\ currentEnd = end
  /\ camIdx = 1
  /\ task = RenderTask
  /\ outputFiles = <<>>
  /\ logins = 1
  /\ cookies = 1
  /\ throughput = NoThroughput
  /\ throughputString = NoString
  /\ files = writeFile(NoFiles, taskMp4(RenderTask), 0, FALSE)
  /\ filesAtStart = NoFiles
  /\ log = <<Event("plan", RenderTask), Event("login", RenderTask),
             Event("get", RenderTask)>>
  /\ AudioIdle
  /\ MainIdle

NextRender == WriterFinish

SpecRender == InitRender /\ [][NextRender]_vars

\* ========================================================================
\* main of the name-matching fetch command
\* ========================================================================

\* a string is the sequence of its characters
Letters == {"A", "a", "B", "b", "c", "x", "1", "2"}

\* --camera-name: the strings of at most two letters
CameraNames ==
  {<<>>} \cup {<<c>> : c \in Letters}
         \cup {<<c, d>> : c \in Letters, d \in Letters}

\* name and id of each camera of the database
nameOf(camera) ==
  CASE camera = "cam1" -> <<"A", "b">>
    [] camera = "cam2" -> <<"a", "B", "c">>
    [] OTHER -> <<"C", "1">>

idOf(camera) ==
  CASE camera = "cam1" -> <<"x", "1">>
    [] camera = "cam2" -> <<"x", "2">>
    [] OTHER -> <<"2", "c">>

\* the rows of the camera table, in order: any sub-list of AllCameras
Inventories ==
  {SelectSeq(AllCameras, LAMBDA c : c \in S) :
      S \in SUBSET {AllCameras[i] : i \in DOMAIN AllCameras}}

lowerChar(c) ==
  CASE c = "A" -> "a"
    [] c = "B" -> "b"
    [] c = "C" -> "c"
    [] OTHER -> c

toLocaleLowerCase(s) == [i \in DOMAIN s |-> lowerChar(s[i])]

\* String.prototype.includes: needle is a substring of haystack
substring(haystack, needle) ==
  \E i \in 0..(Len(haystack) - Len(needle)) :
    SubSeq(haystack, i + 1, i + Len(needle)) = needle

\* lines 26-28
includes(haystack, needle) ==
  substring(toLocaleLowerCase(haystack), toLocaleLowerCase(needle))

\* lines 37-41
filterCameras(cams, needle) ==
  SelectSeq(cams, LAMBDA value : \/ includes(nameOf(value), needle)
                                 \/ includes(idOf(value), needle))

\* the handler called main (lines 150-158) in an empty directory
InitMatch ==
  /\ inventory \in Inventories
  /\ cameraName \in CameraNames
  /\ mpc = "getFullCameras"
  /\ filteredCameras = <<>>
  /\ mainError = "none"
  /\ cameras = <<>>
  /\ start = 0
  /\ end = 2 * MILLISECONDS_IN_MINUTE
  /\ mp4 \in BOOLEAN
  /\ exportSize \in ExportSizes
  /\ run = 1
  /\ prevEnd = "none"
  /\ pc = "idle"
  /\ currentStart = 0
  /\ currentEnd = 0
  /\ camIdx = 1
  /\ task = NoTask
  /\ outputFiles = <<>>
  /\ logins = 0
  /\ cookies = 0
  /\ throughput = NoThroughput
  /\ throughputString = NoString
  /\ files = NoFiles
  /\ filesAtStart = NoFiles
  /\ log = <<>>
  /\ AudioIdle

\* line 35: the database query failed; main rejects
MainQueryFails ==
  /\ mpc = "getFullCameras"
  /\ mpc' = "rejected"
  /\ mainError' = "getFullCameras"
  /\ UNCHANGED <<inventory, cameraName, filteredCameras>>
  /\ UNCHANGED <<videoVars, audioVars>>

\* lines 35-44: nothing matched
MainNoMatch ==
  /\ mpc = "getFullCameras"
  /\ filteredCameras' = filterCameras(inventory, cameraName)
  /\ Len(filteredCameras') = 0
  /\ mpc' = "rejected"
  /\ mainError' = "No cameras matched"
  /\ UNCHANGED <<inventory, cameraName>>
  /\ UNCHANGED <<videoVars, audioVars>>

\* several matches are passed on to getVideo
MainMultipleCallsGetVideo ==
  /\ mpc = "getFullCameras"
  /\ filteredCameras' = filterCameras(inventory, cameraName)
  /\ Len(filteredCameras') > 1
  /\ mpc' = "getVideo"
  /\ cameras' = filteredCameras'
  /\ currentStart' = start
  /\ pc' = "while"
  /\ UNCHANGED <<inventory, cameraName, mainError>>
  /\ UNCHANGED <<start, end, mp4, exportSize, run, prevEnd, currentEnd,
                 camIdx, task, outputFiles, logins, cookies, rate, files,
                 filesAtStart, log>>
  /\ UNCHANGED audioVars

\* lines 35-51: more than one camera matched
MainMultiple ==
  /\ mpc = "getFullCameras"
  /\ filteredCameras' = filterCameras(inventory, cameraName)
  /\ Len(filteredCameras') > 1
  /\ mpc' = "rejected"
  /\ mainError' = "Multiple cameras matched"
  /\ UNCHANGED <<inventory, cameraName>>
  /\ UNCHANGED <<videoVars, audioVars>>

\* lines 35-56 and 284-286 of getVideo: one camera matched, getVideo is
\* called with it
MainGetVideo ==
  /\ mpc = "getFullCameras"
  /\ filteredCameras' = filterCameras(inventory, cameraName)
  /\ Len(filteredCameras') = 1
  /\ mpc' = "getVideo"
  /\ cameras' = filteredCameras'
  /\ currentStart' = start
  /\ pc' = "while"
  /\ UNCHANGED <<inventory, cameraName, mainError>>
  /\ UNCHANGED <<start, end, mp4, exportSize, run, prevEnd, currentEnd,
                 camIdx, task, outputFiles, logins, cookies, rate, files,
                 filesAtStart, log>>
  /\ UNCHANGED audioVars

\* lines 54-60: getVideo returned and its result is printed
MainPrint ==
  /\ mpc = "getVideo"
  /\ pc = "done"
  /\ mpc' = "done"
  /\ UNCHANGED <<inventory, cameraName, filteredCameras, mainError>>
  /\ UNCHANGED <<videoVars, audioVars>>

\* line 56: getVideo rejected, and so does main
MainGetVideoRejects ==
  /\ mpc = "getVideo"
  /\ pc = "failed"
  /\ mpc' = "rejected"
  /\ mainError' = "getVideo"
  /\ UNCHANGED <<inventory, cameraName, filteredCameras>>
  /\ UNCHANGED <<videoVars, audioVars>>

NextMatch ==
  \/ MainQueryFails \/ MainNoMatch \/ MainMultiple \/ MainGetVideo
  \/ MainPrint \/ MainGetVideoRejects
  \/ WhileEnter \/ WhileExit \/ ForExit \/ ForBody
  \/ GetCookiesOk \/ GetCookiesFail \/ AxiosGetOk \/ AxiosGetFail
  \/ StreamData \/ StreamError \/ WriterFinish
  \/ ConvertProgress \/ ConvertEnd \/ ConvertError
  \/ Kill

SpecMatch == InitMatch /\ [][NextMatch]_vars

\* ------------------------------------------------------------------------
\* What a run did, read off its log
\* ------------------------------------------------------------------------
isPlan(e) == e.ev = "plan"
isGet(e) == e.ev = "get"
isSkip(e) == e.ev = "skip"

\* the windows whose export URL the run built, in order
PlannedWindows == SelectSeq(log, isPlan)

TaskOf(e) == [camera |-> e.camera, ws |-> e.ws, we |-> e.we]

PlannedTasks == {TaskOf(log[i]) : i \in {j \in DOMAIN log : isPlan(log[j])}}
DownloadedTasks == {TaskOf(log[i]) : i \in {j \in DOMAIN log : isGet(log[j])}}
SkippedTasks == {TaskOf(log[i]) : i \in {j \in DOMAIN log : isSkip(log[j])}}

HasEvent(ev) == \E i \in DOMAIN log : log[i].ev = ev

wholeIn(fs, name) == existsSync(fs, name) /\ fs[name].whole

nonEmptyIn(fs, name) == existsSync(fs, name) /\ statSize(fs, name) > 0

rawOf(name) == <<name[1], "mp4">>
convertedOf(name) == <<name[1], "mkv">>

\* ------------------------------------------------------------------------
\* C1: for a range with start < end and one camera, the windows getVideo
\* requests are contiguous, do not overlap and cover [start, end) exactly
\* once: the first starts at start, each next one starts where the previous
\* one ended, the last ends at end.
\* ------------------------------------------------------------------------
C1_WindowsTileRange ==
  (pc = "done" /\ Len(cameras) = 1 /\ start < end) =>
    LET w == PlannedWindows
    IN /\ Len(w) >= 1
       /\ w[1].ws = start
       /\ w[Len(w)].we = end
       /\ \A i \in 1..Len(w) : w[i].ws < w[i].we
       /\ \A i \in 1..(Len(w) - 1) : w[i + 1].ws = w[i].we

\* ------------------------------------------------------------------------
\* C2: every window getVideo requests is at most 60 minutes long.
\* ------------------------------------------------------------------------
C2_WindowAtMostMax ==
  \A i \in DOMAIN log :
    isPlan(log[i]) =>
      log[i].we - log[i].ws <= maxMinuteDiff * MILLISECONDS_IN_MINUTE

\* ------------------------------------------------------------------------
\* C3: Overwrite Guard.  A task whose raw file exists and is not empty is
\* over at once: no login, no download, no conversion, the directory is
\* unchanged.  A zero-byte raw file is deleted before the download starts.
\* With no raw file the download proceeds.  Hence a run downloads nothing
\* for a task whose raw file was there and not empty when the run began,
\* and leaves that file as it was.
\* ------------------------------------------------------------------------
C3_GuardStep ==
  (pc = "for" /\ camIdx <= Len(cameras)) =>
    LET name == mp4Filename(currentStart, currentEnd, cameras[camIdx])
    IN /\ nonEmptyIn(files, name) =>
            /\ files' = files
            /\ logins' = logins
            /\ outputFiles' = outputFiles
            /\ pc' = "for"
            /\ camIdx' = camIdx + 1
       /\ (existsSync(files, name) /\ statSize(files, name) = 0) =>
            /\ ~existsSync(files', name)
            /\ pc' = "getCookies"
       /\ ~existsSync(files, name) =>
            /\ files' = files
            /\ pc' = "getCookies"

C3_RerunKeeps ==
  \A t \in PlannedTasks :
    nonEmptyIn(filesAtStart, taskMp4(t)) =>
      /\ t \notin DownloadedTasks
      /\ existsSync(files, taskMp4(t))
      /\ files[taskMp4(t)] = filesAtStart[taskMp4(t)]

\* C3: the guard's three decisions at every guard step, and no download
\* for, nor change to, a raw file that was not empty when the run began
C3_OverwriteGuard == [][C3_GuardStep]_vars /\ []C3_RerunKeeps

\* a run that skipped one task and replaced a zero-byte file of another
C3_Witness ==
  /\ pc = "done"
  /\ HasEvent("skip")
  /\ HasEvent("unlinkStale")
  /\ \E t \in DownloadedTasks : existsSync(filesAtStart, taskMp4(t))

\* ------------------------------------------------------------------------
\* C4: after a first run that completed or was interrupted anywhere, the
\* second run of the same command downloads exactly the tasks whose final
\* artifact the first run did not complete, and ends with a complete final
\* artifact for every task.
\* ------------------------------------------------------------------------
C4_RerunResumes ==
  (run = 2 /\ prevEnd \in {"done", "killed"} /\ pc = "done"
     /\ exportSize > 0) =>
    /\ DownloadedTasks =
         {t \in PlannedTasks :
            ~wholeIn(filesAtStart, finalFilename(t, mp4))}
    /\ \A t \in PlannedTasks : wholeIn(files, finalFilename(t, mp4))

\* ------------------------------------------------------------------------
\* C5: in converted mode a downloaded raw file is removed only by the step
\* that ends its conversion successfully; when the conversion fails the
\* raw file is still there, the run is over (failed) and no result was
\* appended for that window.
\* ------------------------------------------------------------------------
C5_RawRemovedStep ==
  ~mp4 =>
    \A name \in DOMAIN files :
      (name[2] = "mp4" /\ statSize(files, name) > 0
         /\ ~existsSync(files', name)) =>
        /\ pc = "converting"
        /\ name = taskMp4(task)
        /\ wholeIn(files', convertedOf(name))

C5_FailedStops == pc = "failed" => run' = run + 1

C5_AfterConvertError ==
  (pc = "failed" /\ log # <<>> /\ log[Len(log)].ev = "convertError") =>
    /\ wholeIn(files, taskMp4(task))
    /\ \A i \in DOMAIN outputFiles :
         outputFiles[i].filename[1] # taskMp4(task)[1]

\* C5: a non-empty raw file goes away only with its finished conversion; a
\* failed conversion keeps it, ends the run and appends nothing
C5_RawKeptUntilConverted ==
  /\ [][C5_RawRemovedStep /\ C5_FailedStops]_vars
  /\ []C5_AfterConvertError

\* a conversion failed after an earlier window had been converted
C5_Witness ==
  /\ pc = "failed"
  /\ HasEvent("convertError")
  /\ HasEvent("unlinkRaw")
  /\ exportSize > 0

\* ------------------------------------------------------------------------
\* C6: a result is appended only once its artifact is final: its filename
\* is the .mkv name when conversion was requested and the .mp4 name when
\* not, that file is complete, and in converted mode the raw file is gone.
\* A range shorter than 60 minutes, one camera, converted mode and no
\* skipped task give exactly one entry, ending in .mkv, and no raw file.
\* ------------------------------------------------------------------------
C6_ResultsAreFinal ==
  /\ \A i \in DOMAIN outputFiles :
       LET f == outputFiles[i].filename
       IN /\ f[2] = (IF mp4 THEN "mp4" ELSE "mkv")
          /\ wholeIn(files, f)
          /\ ~mp4 => ~existsSync(files, rawOf(f))
  /\ Len(outputFiles) = Cardinality({e \in DOMAIN log : log[e].ev = "push"})
  /\ (/\ pc = "done" /\ ~mp4 /\ Len(cameras) = 1 /\ start < end
      /\ end - start < maxMinuteDiff * MILLISECONDS_IN_MINUTE
      /\ SkippedTasks = {}) =>
        /\ Len(outputFiles) = 1
        /\ outputFiles[1].filename = mkvFilename(start, end, cameras[1])
        /\ ~existsSync(files, mp4Filename(start, end, cameras[1]))

\* a two-minute fetch of one camera, converted, that is done
C6_Witness ==
  /\ pc = "done" /\ ~mp4 /\ Len(cameras) = 1
  /\ end - start = 2 * MILLISECONDS_IN_MINUTE
  /\ Len(outputFiles) = 1
  /\ exportSize > 0

\* ------------------------------------------------------------------------
\* C7: in the extract-audio pool the jobs that have started and have not
\* settled are never more than the configured concurrency (threads).
\* ------------------------------------------------------------------------
InFlight == {j \in DOMAIN jstate : jstate[j] = "running"}

C7_InFlightBounded ==
  /\ Cardinality(InFlight) <= threads
  /\ Cardinality(InFlight) <= activeCount

\* the pool is full while jobs wait, after some job already completed
C7_Witness ==
  /\ threads = 2
  /\ Cardinality(InFlight) = threads
  /\ queue # <<>>
  /\ finished # <<>>

\* ------------------------------------------------------------------------
\* C8: when every job succeeds the result list has one entry per submitted
\* job and entry i is the output of the i-th submitted job, whatever the
\* completion order.
\* ------------------------------------------------------------------------
C8_ResultsInSubmissionOrder ==
  apc = "done" =>
    /\ Len(result) = Len(jobs)
    /\ \A i \in DOMAIN jobs : jstate[i] = "fulfilled"
    /\ \A i \in DOMAIN result : result[i] = outputFile(i - 1)

\* three or more jobs that completed in another order than submitted
C8_Witness ==
  /\ apc = "done"
  /\ Len(jobs) >= 3
  /\ finished # started
  /\ finished # [i \in DOMAIN jobs |-> i]

\* ------------------------------------------------------------------------
\* C9 (as amended): the jobs are exactly the offsets 0, 1, ..., count-1,
\* each paired with the chunk duration, where count is the number of
\* integers i >= 0 with i < totalDuration - chunkDuration, that is
\* ceil(totalDuration - chunkDuration) when positive and 0 otherwise.
\* ------------------------------------------------------------------------
CeilSeconds(ms) ==
  (ms + MILLISECONDS_IN_SECOND - 1) \div MILLISECONDS_IN_SECOND

JobsAreOffsets(count) ==
  /\ Len(jobs) = count
  /\ \A i \in DOMAIN jobs : jobs[i] = [offset |-> i - 1, duration |-> chunkMs]

C9_CountIsCeiling ==
  apc = "partitioned" =>
    JobsAreOffsets(IF durationMs - chunkMs > 0
                   THEN CeilSeconds(durationMs - chunkMs)
                   ELSE 0)

\* a probed duration of 125.5 s with 10 s chunks gives offsets 0..115
C9_Witness ==
  /\ apc = "partitioned"
  /\ durationMs = 251 * StepMs
  /\ chunkMs = 20 * StepMs
  /\ Len(jobs) = 116

\* C9 as stated: count = floor(totalDuration) - chunkDuration, no job when
\* count <= 0 (chunk durations of whole seconds)
C9_CountIsFloorMinusChunk ==
  (apc = "partitioned" /\ chunkMs % MILLISECONDS_IN_SECOND = 0) =>
    LET count == durationMs \div MILLISECONDS_IN_SECOND
                   - chunkMs \div MILLISECONDS_IN_SECOND
    IN JobsAreOffsets(IF count > 0 THEN count ELSE 0)

\* ------------------------------------------------------------------------
\* C10: the throughput is fileSizeBytes / max(1, elapsedSeconds): the
\* divisor is never below 1 and the rate is always finite.
\* ------------------------------------------------------------------------
C10_DivisorAtLeastOne ==
  throughput.kind # "none" =>
    /\ throughput.kind = "finite"
    /\ throughput.den >= 1

\* ------------------------------------------------------------------------
\* C11: the completion line renders a rate above 1,000,000 B/s as
\* round(rate / 1,000,000) "MB" and any other rate, exactly 1,000,000
\* included, as round(rate) "B"; 2,500,000 bytes in 1 second give "3 MB"
\* and 900,000 bytes in 1 second give "900000 B".  Rounding is to the
\* nearest integer, halves upwards.
\* ------------------------------------------------------------------------
IsRoundOf(v, num, den) ==
  /\ v \in Nat
  /\ (2 * v - 1) * den <= 2 * num
  /\ 2 * num < (2 * v + 1) * den

C11_ThroughputRendering ==
  throughput.kind \in {"finite", "Infinity", "NaN"} =>
    LET n == throughput.num
        d == throughput.den
        s == throughputString
    IN /\ throughput.kind = "finite" /\ n > 1000000 * d =>
            s.unit = "MB" /\ IsRoundOf(s.value, n, 1000000 * d)
       /\ throughput.kind = "finite" /\ n <= 1000000 * d =>
            s.unit = "B" /\ IsRoundOf(s.value, n, d)
       /\ throughput.kind = "Infinity" =>
            s = [value |-> "Infinity", unit |-> "MB"]
       /\ throughput.kind = "NaN" => s = [value |-> "NaN", unit |-> "B"]
       /\ n = 2500000 /\ d = 1 => s = [value |-> 3, unit |-> "MB"]
       /\ n = 900000 /\ d = 1 => s = [value |-> 900000, unit |-> "B"]

C11_Witness ==
  /\ throughput = [kind |-> "finite", num |-> 1000000, den |-> 1]
  /\ throughputString = [value |-> 1000000, unit |-> "B"]

\* ------------------------------------------------------------------------
\* C12: for a range with start < end shorter than 60 minutes and a single
\* camera, getVideo builds exactly one window, from start to end, and then
\* returns: no run ever has a second window or a different one, and a run
\* that returned has the one.
\* ------------------------------------------------------------------------
C12_ShortRangeOneCamera ==
  /\ Len(cameras) = 1
  /\ start < end
  /\ end - start < maxMinuteDiff * MILLISECONDS_IN_MINUTE

C12_ShortRangeOneWindow ==
  C12_ShortRangeOneCamera =>
    LET w == PlannedWindows
    IN /\ Len(w) <= 1
       /\ \A i \in DOMAIN w : w[i].ws = start /\ w[i].we = end
       /\ pc = "done" => Len(w) = 1
       /\ Len(w) = 1 /\ pc \in {"for", "while"} /\ camIdx > 1 =>
            ~isBefore(currentStart, end)

C12_Witness ==
  /\ C12_ShortRangeOneCamera
  /\ end - start = 59 * MILLISECONDS_IN_MINUTE + 30 * MILLISECONDS_IN_SECOND
  /\ pc = "done"
  /\ Len(PlannedWindows) = 1
  /\ HasEvent("push")

\* ------------------------------------------------------------------------
\* C13: in the name-matching fetch command, when the requested name is a
\* case-insensitive substring of the name or id of no camera, or of more
\* than one, main fails and getVideo is never called: no login, no
\* download, no file.  getVideo runs only with exactly one camera, the one
\* that matched.
\* ------------------------------------------------------------------------
C13_Matches(camera) ==
  \E h \in {nameOf(camera), idOf(camera)} :
    \E i \in 0..(Len(h) - Len(cameraName)) :
      \A k \in 1..Len(cameraName) :
        lowerChar(h[i + k]) = lowerChar(cameraName[k])

C13_Matched ==
  {inventory[i] : i \in {j \in DOMAIN inventory : C13_Matches(inventory[j])}}

C13_OnlyOneMatchFetches ==
  /\ mpc # "getFullCameras" /\ Cardinality(C13_Matched) # 1 =>
       /\ mpc = "rejected"
       /\ pc = "idle"
  /\ pc = "idle" =>
       /\ logins = 0
       /\ log = <<>>
       /\ files = NoFiles
  /\ pc # "idle" =>
       /\ Len(cameras) = 1
       /\ C13_Matched = {cameras[1]}

C13_Witness ==
  /\ cameraName = <<"A", "B">>
  /\ Cardinality(C13_Matched) = 2
  /\ mpc = "rejected"
  /\ mainError = "Multiple cameras matched"

\* ------------------------------------------------------------------------
\* C14: every fatal error ends the command in the failed state; in
\* particular, once an extraction job of extract-audio has failed and the
\* handler is over, the handler has failed and has not completed normally.
\* ------------------------------------------------------------------------
C14_JobFailureFailsCommand ==
  (\E j \in DOMAIN jstate : jstate[j] = "rejected")
    /\ handlerOutcome # "running"
  => handlerOutcome = "failed"

\* ------------------------------------------------------------------------
\* C15: when the conversion of a task has failed, no file exists at the
\* task's converted output path: no partially written .mkv is left behind.
\* ------------------------------------------------------------------------
C15_NoOutputAfterConvertError ==
  (pc = "failed" /\ log # <<>> /\ log[Len(log)].ev = "convertError"
     /\ exportSize > 0) =>
    ~existsSync(files, taskMkv(task))

\* ------------------------------------------------------------------------
\* C16: once an extraction job has rejected, the handler never produces a
\* result list; what it ends with is the error of the job that rejected
\* first.  The jobs in flight are not cancelled: each stays running until
\* it ends by itself, and is able to.
\* ------------------------------------------------------------------------
C16_Rejected == {i \in DOMAIN finished : jstate[finished[i]] = "rejected"}

C16_FirstRejected ==
  finished[CHOOSE i \in C16_Rejected : \A k \in C16_Rejected : i <= k]

C16_FailFastNoCancel ==
  /\ C16_Rejected # {} => apc # "done"
  /\ apc = "caught" =>
       /\ C16_Rejected # {}
       /\ result = <<"error", C16_FirstRejected>>
  /\ allState = "rejected" =>
       /\ C16_Rejected # {}
       /\ allError = C16_FirstRejected
  /\ \A j \in InFlight :
       (C16_Rejected # {} /\ micro = <<>>) => ENABLED JobEnd(j)

\* job 1 rejected first while job 2 was running; job 2 then ended well
C16_Witness ==
  /\ threads = 2
  /\ apc = "caught"
  /\ Len(finished) >= 2
  /\ finished[1] = 1
  /\ jstate[1] = "rejected"
  /\ jstate[2] = "fulfilled"
  /\ result = <<"error", 1>>

\* ------------------------------------------------------------------------
\* C17: with two or more cameras every camera gets a task for every window,
\* with that window's start and end, and no task has windowStart >=
\* windowEnd; the cursor moves only after all cameras were handled.
\* ------------------------------------------------------------------------
C17_EveryCameraEveryWindow ==
  Len(cameras) >= 2 =>
    /\ \A t \in PlannedTasks : t.ws < t.we
    /\ pc = "done" =>
         \A t \in PlannedTasks : \A i \in DOMAIN cameras :
           [camera |-> cameras[i], ws |-> t.ws, we |-> t.we] \in PlannedTasks

\* ------------------------------------------------------------------------
\* C18: every download has its own login.  A GET is sent only in a step
\* that logged in, with the tokens of that login; in the log each GET comes
\* right after the login for the same task, which comes after the task's
\* guard; while a download is in flight the tokens in use are those of the
\* latest login, so tokens of an earlier task are never used again.
\* ------------------------------------------------------------------------
C18_GetStep ==
  (Len(log') > Len(log) /\ isGet(log'[Len(log')])) =>
    /\ logins' = logins + 1
    /\ cookies' = logins'
    /\ cookies' # cookies

C18_LoginBeforeEachGet ==
  /\ \A i \in DOMAIN log :
       isGet(log[i]) =>
         /\ i > 2
         /\ log[i - 1].ev = "login"
         /\ TaskOf(log[i - 1]) = TaskOf(log[i])
         /\ log[i - 2].ev \in {"plan", "unlinkStale"}
         /\ TaskOf(log[i - 2]) = TaskOf(log[i])
  /\ logins = Len(SelectSeq(log, isGet))
  /\ pc \in {"axiosGet", "stream"} => cookies = logins /\ logins >= 1

C18_FreshLoginPerDownload ==
  /\ [][C18_GetStep]_vars
  /\ []C18_LoginBeforeEachGet

\* the second download of a run is in flight with the second login's tokens
C18_Witness ==
  /\ pc = "stream"
  /\ Len(SelectSeq(log, isGet)) = 2
  /\ logins = 2
  /\ cookies = 2

\* ------------------------------------------------------------------------
\* C19: the retrieval pipeline is strictly sequential.  While a run is
\* alive at most one login, download or conversion is in flight; and the
\* step that starts the guard check of a task finds every task downloaded
\* before it finished: its final file complete and, in converted mode, its
\* raw file deleted.
\* ------------------------------------------------------------------------
C19_TasksWith(ev) ==
  {TaskOf(log[i]) : i \in {j \in DOMAIN log : log[j].ev = ev}}

C19_InFlight ==
  IF pc \in {"idle", "done", "failed", "killed"}
  THEN {}
  ELSE {<<"authentication", t>> :
          t \in (PlannedTasks \ SkippedTasks) \ C19_TasksWith("login")}
       \cup {<<"download", t>> :
          t \in C19_TasksWith("get") \ C19_TasksWith("finish")}
       \cup {<<"conversion", t>> :
          t \in C19_TasksWith("convert") \ C19_TasksWith("unlinkRaw")}

C19_AtMostOneInFlight == Cardinality(C19_InFlight) <= 1

C19_GuardStep ==
  (Len(log') > Len(log) /\ Len(SelectSeq(log', isPlan)) >
                             Len(SelectSeq(log, isPlan))) =>
    /\ C19_InFlight = {}
    /\ \A t \in DownloadedTasks :
         /\ wholeIn(files, finalFilename(t, mp4))
         /\ ~mp4 => ~existsSync(files, taskMp4(t))

C19_StrictlySequential ==
  /\ [][C19_GuardStep]_vars
  /\ []C19_AtMostOneInFlight

\* the second task of a run is being converted
C19_Witness ==
  /\ pc = "converting"
  /\ Cardinality(DownloadedTasks) = 2
  /\ C19_InFlight = {<<"conversion", task>>}

\* ------------------------------------------------------------------------
\* C20: a failed login or a failed download aborts the whole fetch.  The
\* failure is the last thing the run does: no later login or download, no
\* second attempt at the failed window, and getVideo has failed instead of
\* returning a result list.
\* ------------------------------------------------------------------------
C20_IsFailure(e) == e.ev \in {"loginError", "getError", "streamError"}

C20_FailureAborts ==
  /\ \A i \in DOMAIN log :
       C20_IsFailure(log[i]) =>
         /\ i = Len(log)
         /\ pc = "failed"
         /\ Len(SelectSeq(log, LAMBDA e : e.ev = "login"
                                          /\ TaskOf(e) = TaskOf(log[i]))) <= 1
  /\ pc = "done" => \A i \in DOMAIN log : ~C20_IsFailure(log[i])

\* the download of a later task failed after an earlier one was delivered,
\* with a camera or a window still to come
C20_Witness ==
  /\ pc = "failed"
  /\ log # <<>>
  /\ log[Len(log)].ev = "getError"
  /\ HasEvent("push")
  /\ camIdx < Len(cameras) \/ isBefore(currentStart, end)

\* ------------------------------------------------------------------------
\* C21: a Block decision of the Overwrite Guard is a skip, not an error.
\* The step that skips a task leaves the loop where a completed task leaves
\* it (next camera, cursor advanced, window end kept) and changes neither
\* the directory nor the result list; the n-th task of a run starts n - 1
\* cursor steps after the range start whether or not earlier tasks were
\* skipped; no result names a skipped task; and a run that returned has
\* downloaded every task it did not skip, one result each.
\* ------------------------------------------------------------------------
C21_SkipStep ==
  (Len(log') > Len(log) /\ isSkip(log'[Len(log')])) =>
    /\ pc' = "for"
    /\ camIdx' = camIdx + 1
    /\ currentStart' = add(currentStart, maxMinuteDiff)
    /\ currentEnd' = currentEnd
    /\ outputFiles' = outputFiles
    /\ files' = files
    /\ logins' = logins

C21_SkipsLeaveNoTrace ==
  /\ \A i \in DOMAIN PlannedWindows :
       PlannedWindows[i].ws =
         start + (i - 1) * maxMinuteDiff * MILLISECONDS_IN_MINUTE
  /\ \A t \in SkippedTasks : \A i \in DOMAIN outputFiles :
       outputFiles[i].filename[1] # taskMp4(t)[1]
  /\ pc = "done" =>
       /\ PlannedTasks = SkippedTasks \cup DownloadedTasks
       /\ SkippedTasks \cap DownloadedTasks = {}
       /\ Len(outputFiles) = Cardinality(DownloadedTasks)

C21_BlockIsSkip ==
  /\ [][C21_SkipStep]_vars
  /\ []C21_SkipsLeaveNoTrace

\* a run skipped a task, downloaded a later one and returned
C21_Witness ==
  /\ pc = "done"
  /\ \E i, j \in DOMAIN log : i < j /\ isSkip(log[i]) /\ isGet(log[j])
  /\ Len(outputFiles) >= 1

\* ------------------------------------------------------------------------
\* C22: extraction jobs are started in submission order: the k-th job to
\* start is the k-th submitted, and no job has left the queue while an
\* earlier one still waits, whatever order the running jobs end in.
\* ------------------------------------------------------------------------
C22_StartedInSubmissionOrder ==
  /\ \A k \in DOMAIN started : started[k] = k
  /\ \A i, j \in DOMAIN jstate :
       (i < j /\ jstate[j] # "queued") => jstate[i] # "queued"

\* three jobs were started although the second ended before the first
C22_Witness ==
  /\ threads = 2
  /\ Len(started) >= 3
  /\ finished # <<>>
  /\ finished[1] = 2

\* ------------------------------------------------------------------------
\* C23: getVideo terminates for every finite range and every camera list,
\* the empty list included, when each login, download and conversion
\* terminates: whenever the loop test is reached, the run later returns,
\* fails or is killed.
\* ------------------------------------------------------------------------
C23_GetVideoTerminates ==
  (pc = "while") ~> (pc \in {"done", "failed", "killed"})

\* ------------------------------------------------------------------------
\* C24: each DownloadResult describes the window whose artifact it names:
\* its start and end are the bounds its filename was formed from, and two
\* results of the same camera carry different (start, end) values.
\* ------------------------------------------------------------------------
C24_ResultDescribesItsWindow ==
  /\ \A i \in DOMAIN outputFiles :
       LET r == outputFiles[i]
       IN /\ formatDate(r.start) = r.filename[1][1]
          /\ formatDate(r.end) = r.filename[1][2]
  /\ \A i, j \in DOMAIN outputFiles :
       (i # j /\ outputFiles[i].camera = outputFiles[j].camera) =>
         <<outputFiles[i].start, outputFiles[i].end>> #
           <<outputFiles[j].start, outputFiles[j].end>>

\* ------------------------------------------------------------------------
\* C25: the jobs of one extract-audio run write pairwise different files:
\* distinct start offsets give distinct names, also at 100 minutes and
\* more, where the minute field has three digits.
\* ------------------------------------------------------------------------
C25_DisjointOutputFiles ==
  /\ apc = "named" =>
       \A i, j \in DOMAIN jobs :
         jobs[i].offset # jobs[j].offset => allValues[i] # allValues[j]
  /\ apc \in {"collect", "done", "caught"} =>
       \A i, j \in DOMAIN jobs :
         i # j => outputFile(jobs[i].offset) # outputFile(jobs[j].offset)

\* the jobs at 0 s and at 100 minutes: 00m-00s and 100m-00s
C25_Witness ==
  /\ apc = "named"
  /\ jobs[1].offset = 0
  /\ jobs[2].offset = 6000
  /\ allValues[1] = <<"0", "0", "m", "-", "0", "0", "s">>
  /\ allValues[2] = <<"1", "0", "0", "m", "-", "0", "0", "s">>

\* ------------------------------------------------------------------------
\* C26: after an extraction job has failed and the handler has reported
\* the error, the pool starts no further job: the jobs still waiting stay
\* unstarted.
\* ------------------------------------------------------------------------
C26_NoStartAfterFailure ==
  [][apc = "caught" => (started' = started /\ queue' = queue)]_vars

====
